---- MODULE Spec2Model ----
(***************************************************************************)
(* A model of diffprivlib/mechanisms/laplace.py: the Laplace mechanism and *)
(* its truncated, folded, bounded-domain and bounded-noise derivatives.    *)
(*                                                                         *)
(* Floating-point numbers are modelled as binary fixed-point numbers with  *)
(* PrecisionBits fractional bits, rounded to nearest (ties to even), with  *)
(* the IEEE special values +inf, -inf and NaN.  A number n stands for the  *)
(* real n / ONE.  Overflow beyond FMax gives an infinity, as in IEEE.      *)
(***************************************************************************)
EXTENDS Integers, Sequences, FiniteSets, TLC

\* ------------------------------------------------------------------------
\* Bounds of the model
\* ------------------------------------------------------------------------

\* fractional bits of the modelled floating-point numbers
PrecisionBits == 8

\* extra fractional bits used inside exp and log
GuardBits == 4

\* ------------------------------------------------------------------------
\* Floating-point arithmetic
\* ------------------------------------------------------------------------

ONE == 2^PrecisionBits
HALF == ONE \div 2

\* largest finite magnitude (products of two finite numbers fit 31 bits)
FMax == 2^15

Inf == 2^30
NInf == -Inf
NaN == Inf + 1
\* Python's None, for a field that is not set
None == Inf + 2

IsFinite(x) == x > NInf /\ x < Inf

\* a / b for b > 0, rounded to the nearest integer, ties to even
RDiv(a, b) ==
    LET q == a \div b
        r == a % b
    IN  IF 2 * r < b THEN q
        ELSE IF 2 * r > b THEN q + 1
        ELSE IF q % 2 = 0 THEN q ELSE q + 1

\* overflow to an infinity
Sat(n) == IF n > FMax THEN Inf ELSE IF n < -FMax THEN NInf ELSE n

Sgn(x) == IF x > 0 THEN 1 ELSE IF x < 0 THEN -1 ELSE 0

\* The arithmetic operators below bind their arguments with x \in {a}, so that
\* an argument that is itself a long expression is evaluated once.

FNeg(a) == CHOOSE r \in {IF x = NaN THEN NaN ELSE -x : x \in {a}} : TRUE

FAdd(a, b) ==
    CHOOSE r \in
        {IF x = NaN \/ y = NaN THEN NaN
         ELSE IF x = Inf THEN (IF y = NInf THEN NaN ELSE Inf)
         ELSE IF x = NInf THEN (IF y = Inf THEN NaN ELSE NInf)
         ELSE IF y = Inf \/ y = NInf THEN y
         ELSE Sat(x + y) : x \in {a}, y \in {b}} : TRUE

FSub(a, b) == FAdd(a, FNeg(b))

FMul(a, b) ==
    CHOOSE r \in
        {IF x = NaN \/ y = NaN THEN NaN
         ELSE IF ~IsFinite(x) \/ ~IsFinite(y)
              THEN (IF x = 0 \/ y = 0 THEN NaN
                    ELSE IF Sgn(x) * Sgn(y) > 0 THEN Inf ELSE NInf)
         ELSE Sat(RDiv(x * y, ONE)) : x \in {a}, y \in {b}} : TRUE

\* numpy's division: a division by zero gives an infinity or NaN, not an error
FDiv(a, b) ==
    CHOOSE r \in
        {IF x = NaN \/ y = NaN THEN NaN
         ELSE IF ~IsFinite(x)
              THEN (IF ~IsFinite(y) THEN NaN
                    ELSE IF Sgn(x) * (IF y < 0 THEN -1 ELSE 1) > 0 THEN Inf
                    ELSE NInf)
         ELSE IF ~IsFinite(y) THEN 0
         ELSE IF y = 0 THEN (IF x = 0 THEN NaN ELSE IF x > 0 THEN Inf ELSE NInf)
         ELSE IF y > 0 THEN Sat(RDiv(x * ONE, y))
         ELSE Sat(RDiv((-x) * ONE, -y)) : x \in {a}, y \in {b}} : TRUE

\* comparisons: every comparison with NaN is false
FLt(a, b) == \E x \in {a}, y \in {b} : x # NaN /\ y # NaN /\ x < y
FLe(a, b) == \E x \in {a}, y \in {b} : x # NaN /\ y # NaN /\ x <= y
FGt(a, b) == FLt(b, a)
FGe(a, b) == FLe(b, a)
FEq(a, b) == \E x \in {a}, y \in {b} : x # NaN /\ y # NaN /\ x = y

FAbs(a) ==
    CHOOSE r \in {IF x = NaN THEN NaN ELSE IF x < 0 THEN -x ELSE x : x \in {a}} : TRUE

\* np.sign
FSign(a) ==
    CHOOSE r \in {IF x = NaN THEN NaN ELSE Sgn(x) * ONE : x \in {a}} : TRUE

\* Python's min(x, y) and max(x, y): y when y < x (y > x), else x
FMin(a, b) == CHOOSE r \in {IF FLt(y, x) THEN y ELSE x : x \in {a}, y \in {b}} : TRUE
FMax2(a, b) == CHOOSE r \in {IF FGt(y, x) THEN y ELSE x : x \in {a}, y \in {b}} : TRUE

\* exp and log are computed with GuardBits more fractional bits
IONE == ONE * 2^GuardBits
\* ln 2 in internal units (45426 / 2^16 = 0.693146...)
LN2I == RDiv(45426 * IONE, 2^16)

\* e^(r / IONE) * IONE for 0 <= r < LN2I, by the Taylor series
ExpSeries(r) ==
    LET t2 == RDiv(r * r, 2 * IONE)
        t3 == RDiv(t2 * r, 3 * IONE)
        t4 == RDiv(RDiv(t2 * t2, IONE), 6)
        t5 == RDiv(RDiv(t2 * t3, IONE), 10)
        t6 == RDiv(RDiv(t3 * t3, IONE), 20)
        t7 == RDiv(RDiv(t3 * RDiv(t2 * t2, IONE), IONE), 210)
    IN  IONE + r + t2 + t3 + t4 + t5 + t6 + t7

\* 2^k * s / 2^GuardBits: the result of exp from its exponent k and series s
ExpScale(k, s) ==
    IF k > 8 THEN Inf
    ELSE IF k >= 0 THEN Sat(RDiv(s * 2^k, 2^GuardBits))
    ELSE IF k < -24 THEN 0
    ELSE RDiv(s, 2^(GuardBits - k))

\* np.exp
FExp(a) ==
    CHOOSE r \in
        {IF x = NaN THEN NaN
         ELSE IF x = Inf THEN Inf
         ELSE IF x = NInf THEN 0
         ELSE ExpScale((x * 2^GuardBits) \div LN2I,
                       CHOOSE s \in {ExpSeries(t) : t \in {(x * 2^GuardBits) % LN2I}}
                           : TRUE) : x \in {a}} : TRUE

\* the e with 2^e <= y / IONE < 2^(e+1), for y > 0
RECURSIVE Log2Floor(_)
Log2Floor(y) ==
    IF y >= 2 * IONE THEN 1 + (CHOOSE e \in {Log2Floor(h) : h \in {y \div 2}} : TRUE)
    ELSE IF y < IONE THEN (CHOOSE e \in {Log2Floor(h) : h \in {y * 2}} : TRUE) - 1
    ELSE 0

\* 2 (z + z^3/3 + z^5/5 + z^7/7 + z^9/9), with z2 = z^2
AtanhSeries(z, z2) ==
    LET z3 == RDiv(z * z2, IONE)
        z5 == RDiv(z3 * z2, IONE)
        z7 == RDiv(z5 * z2, IONE)
        z9 == RDiv(z7 * z2, IONE)
    IN  2 * z + RDiv(2 * z3, 3) + RDiv(2 * z5, 5) + RDiv(2 * z7, 7) + RDiv(2 * z9, 9)

\* ln(m / IONE) * IONE for IONE <= m <= 2 IONE, by the series of 2 atanh z
LogSeries(m) ==
    CHOOSE r \in {AtanhSeries(z, RDiv(z * z, IONE))
                    : z \in {RDiv((m - IONE) * IONE, m + IONE)}} : TRUE

\* np.log: log(0) = -inf and the log of a negative number is NaN (a warning,
\* not an error)
FLog(a) ==
    CHOOSE r \in
        {IF y = NaN THEN NaN
         ELSE IF y = Inf THEN Inf
         ELSE IF y < 0 THEN NaN
         ELSE IF y = 0 THEN NInf
         ELSE CHOOSE q \in
                {RDiv(e * LN2I
                      + LogSeries(IF e >= 0 THEN RDiv(y * 2^GuardBits, 2^e)
                                  ELSE y * 2^GuardBits * 2^(-e)),
                      2^GuardBits) : e \in {Log2Floor(y * 2^GuardBits)}} : TRUE
            : y \in {a}} : TRUE

\* ------------------------------------------------------------------------
\* State
\* ------------------------------------------------------------------------

VARIABLES
    variant,        \* the class of the instance
    sensitivity,    \* Laplace._sensitivity
    epsilon,        \* DPMechanism._epsilon
    delta,          \* DPMechanism._delta
    lower_bound,    \* TruncationAndFoldingMachine._lower_bound
    upper_bound,    \* TruncationAndFoldingMachine._upper_bound
    scale,          \* LaplaceBoundedDomain._scale
    shape,          \* LaplaceBoundedNoise._shape
    noise_bound,    \* LaplaceBoundedNoise._noise_bound
    solves,         \* how many times _find_scale has run on the instance
    last,           \* the last call on the instance and how it ended
    pc,             \* position inside _find_scale when it is run step by step
    left,           \* _find_scale's local left
    right,          \* _find_scale's local right
    old_interval_size   \* _find_scale's local old_interval_size

fields == <<sensitivity, epsilon, delta, lower_bound, upper_bound, scale, shape,
            noise_bound>>
locals == <<pc, left, right, old_interval_size>>
vars == <<variant, sensitivity, epsilon, delta, lower_bound, upper_bound, scale,
          shape, noise_bound, solves, last, pc, left, right, old_interval_size>>

Variants == {"Laplace", "LaplaceTruncated", "LaplaceFolded",
             "LaplaceBoundedDomain", "LaplaceBoundedNoise"}
Bounded == {"LaplaceTruncated", "LaplaceFolded", "LaplaceBoundedDomain"}

\* an argument that is not a number (such as the string "a")
NonNumeric == Inf + 3

\* the instance as a record
Self ==
    [sensitivity |-> sensitivity, epsilon |-> epsilon, delta |-> delta,
     lower_bound |-> lower_bound, upper_bound |-> upper_bound, scale |-> scale,
     shape |-> shape, noise_bound |-> noise_bound]

\* ------------------------------------------------------------------------
\* Inputs
\* ------------------------------------------------------------------------

SensInputs == {NonNumeric, -ONE, 0, ONE, 2 * ONE}
\* epsilon may be +inf (the zero-scale limit)
EpsInputs == {-ONE, 0, ONE, 2 * ONE, Inf}
DeltaInputs == {0, ONE \div 4, HALF, HALF + ONE \div 8}
BoundInputs == {<<0, ONE>>, <<0, 8 * ONE>>, <<ONE, 0>>, <<ONE, ONE>>}
ValueInputs == {NonNumeric, -ONE, 0, ONE, 3 * ONE}
\* numpy.random.random() returns a number in [0, 1)
Draws == {0, ONE \div 4, HALF, ONE - 1}

\* ------------------------------------------------------------------------
\* How a call ends
\* ------------------------------------------------------------------------

\* a call that returns val, having taken `draws` draws from the random source
\* and run the solver `solved` times
Return(m, val, draws, solved) ==
    [m |-> m, out |-> "return", val |-> val, draws |-> draws, solved |-> solved]

\* a call that raises the exception exc
Raise(m, exc, draws, solved) ==
    [m |-> m, out |-> exc, val |-> None, draws |-> draws, solved |-> solved]

\* the exceptions a call can end in
Errors == {"TypeError", "ValueError", "ZeroDivisionError"}

\* what a setter returns: the instance itself
SelfRef == Inf + 4

\* ------------------------------------------------------------------------
\* The configuration base and the domain mixin (not part of laplace.py)
\* ------------------------------------------------------------------------

\* DPMechanism.check_inputs: epsilon must be set
DPMechanism_check_inputs(m, value) ==
    IF m.epsilon = None THEN "ValueError" ELSE "ok"

\* DPMechanism.set_epsilon_delta: validates epsilon > 0 and stores the pair
DPMechanism_set_epsilon_delta(m, eps, dlt) ==
    IF ~FGt(eps, 0) THEN Raise(m, "ValueError", 0, 0)
    ELSE Return([m EXCEPT !.epsilon = eps, !.delta = dlt], SelfRef, 0, 0)

\* TruncationAndFoldingMachine.check_inputs: the bounds must be set
TruncationAndFoldingMachine_check_inputs(m, value) ==
    IF m.lower_bound = None \/ m.upper_bound = None THEN "ValueError" ELSE "ok"

\* TruncationAndFoldingMachine.set_bounds: requires lower < upper
TruncationAndFoldingMachine_set_bounds(m, lower, upper) ==
    IF ~FLt(lower, upper) THEN Raise(m, "ValueError", 0, 0)
    ELSE Return([m EXCEPT !.lower_bound = lower, !.upper_bound = upper],
                SelfRef, 0, 0)

\* TruncationAndFoldingMachine._truncate: clip x into [lower, upper]
Truncate(m, x) ==
    IF FGt(x, m.upper_bound) THEN m.upper_bound
    ELSE IF FLt(x, m.lower_bound) THEN m.lower_bound
    ELSE x

\* TruncationAndFoldingMachine._fold: reflect x off the boundaries until it
\* lies in [lower, upper]; an infinite x never does (None: no value)
RECURSIVE Fold(_, _)
Fold(m, x) ==
    IF x = Inf \/ x = NInf THEN None
    ELSE IF FLt(x, m.lower_bound)
         THEN Fold(m, FSub(FMul(2 * ONE, m.lower_bound), x))
    ELSE IF FGt(x, m.upper_bound)
         THEN Fold(m, FSub(FMul(2 * ONE, m.upper_bound), x))
    ELSE x

\* ------------------------------------------------------------------------
\* class Laplace
\* ------------------------------------------------------------------------

\* set_sensitivity with the range test sensitivity < 0 in place of <= 0
Laplace_set_sensitivity_lt(m, s) ==
    IF s = NonNumeric THEN Raise(m, "TypeError", 0, 0)
    ELSE IF FLt(s, 0) THEN Raise(m, "ValueError", 0, 0)
    ELSE Return([m EXCEPT !.sensitivity = s], SelfRef, 0, 0)

Laplace_set_sensitivity(m, s) ==
    IF s = NonNumeric THEN Raise(m, "TypeError", 0, 0)
    ELSE IF FLe(s, 0) THEN Raise(m, "ValueError", 0, 0)
    ELSE Return([m EXCEPT !.sensitivity = s], SelfRef, 0, 0)

Laplace_check_inputs(m, value) ==
    IF DPMechanism_check_inputs(m, value) # "ok"
        THEN DPMechanism_check_inputs(m, value)
    ELSE IF value = NonNumeric THEN "TypeError"
    ELSE IF m.sensitivity = None THEN "ValueError"
    ELSE "ok"

\* LaplaceTruncated.check_inputs and LaplaceFolded.check_inputs (the same body;
\* LaplaceBoundedDomain inherits the first)
LaplaceTruncated_check_inputs(m, value) ==
    IF Laplace_check_inputs(m, value) # "ok" THEN Laplace_check_inputs(m, value)
    ELSE TruncationAndFoldingMachine_check_inputs(m, value)

\* self.check_inputs(value), dispatched on the class of self
check_inputs(v, m, value) ==
    IF v \in Bounded THEN LaplaceTruncated_check_inputs(m, value)
    ELSE Laplace_check_inputs(m, value)

Laplace_get_bias(m, value) == Return(m, 0, 0, 0)

Laplace_get_variance(m, value) ==
    IF Laplace_check_inputs(m, 0) # "ok"
        THEN Raise(m, Laplace_check_inputs(m, 0), 0, 0)
    ELSE LET q == FDiv(m.sensitivity, m.epsilon)
         IN  Return(m, FMul(2 * ONE, FMul(q, q)), 0, 0)

\* value - scale * np.sign(unif_rv) * np.log(1 - 2 * np.abs(unif_rv))
InverseCdf(value, scl, unif_rv) ==
    FSub(value,
         FMul(FMul(scl, FSign(unif_rv)),
              FLog(FSub(ONE, FMul(2 * ONE, FAbs(unif_rv))))))

\* randomise with the draw taken before check_inputs
Laplace_randomise_draws_first(v, m, value, u) ==
    IF check_inputs(v, m, value) # "ok"
        THEN Raise(m, check_inputs(v, m, value), 1, 0)
    ELSE LET scl == FDiv(m.sensitivity, m.epsilon)
             unif_rv == FSub(u, HALF)
         IN  Return(m, InverseCdf(value, scl, unif_rv), 1, 0)

\* Laplace.randomise on an instance of class v, with the draw u
Laplace_randomise(v, m, value, u) ==
    IF check_inputs(v, m, value) # "ok"
        THEN Raise(m, check_inputs(v, m, value), 0, 0)
    ELSE LET scl == FDiv(m.sensitivity, m.epsilon)
             unif_rv == FSub(u, HALF)
         IN  Return(m, InverseCdf(value, scl, unif_rv), 1, 0)

\* ------------------------------------------------------------------------
\* class LaplaceTruncated
\* ------------------------------------------------------------------------

\* shape / 2 * (exp((lower - value) / shape) - exp((value - upper) / shape))
TruncatedBias(m, value, shp) ==
    FMul(FDiv(shp, 2 * ONE),
         FSub(FExp(FDiv(FSub(m.lower_bound, value), shp)),
              FExp(FDiv(FSub(value, m.upper_bound), shp))))

LaplaceTruncated_get_bias(m, value) ==
    IF LaplaceTruncated_check_inputs(m, value) # "ok"
        THEN Raise(m, LaplaceTruncated_check_inputs(m, value), 0, 0)
    ELSE LET shp == FDiv(m.sensitivity, m.epsilon)
         IN  \* a Python float divided by the float 0.0
             IF shp = 0 THEN Raise(m, "ZeroDivisionError", 0, 0)
             ELSE Return(m, TruncatedBias(m, value, shp), 0, 0)

LaplaceTruncated_get_variance(m, value) ==
    IF LaplaceTruncated_check_inputs(m, value) # "ok"
        THEN Raise(m, LaplaceTruncated_check_inputs(m, value), 0, 0)
    ELSE LET shp == FDiv(m.sensitivity, m.epsilon)
             el == FExp(FDiv(FSub(m.lower_bound, value), shp))
             eu == FExp(FDiv(FSub(value, m.upper_bound), shp))
             v1 == FAdd(FMul(value, value),
                        FMul(shp, FSub(FMul(m.lower_bound, el),
                                       FMul(m.upper_bound, eu))))
             v2 == FAdd(v1, FMul(FMul(shp, shp), FSub(FSub(2 * ONE, el), eu)))
             bv == FAdd(TruncatedBias(m, value, shp), value)
         IN  IF shp = 0 THEN Raise(m, "ZeroDivisionError", 0, 0)
             ELSE Return(m, FSub(v2, FMul(bv, bv)), 0, 0)

LaplaceTruncated_randomise(m, value, u) ==
    IF TruncationAndFoldingMachine_check_inputs(m, value) # "ok"
        THEN Raise(m, "ValueError", 0, 0)
    ELSE LET noisy_value == Laplace_randomise("LaplaceTruncated", m, value, u)
         IN  IF noisy_value.out # "return" THEN noisy_value
             ELSE Return(m, Truncate(m, noisy_value.val), 1, 0)

\* ------------------------------------------------------------------------
\* class LaplaceFolded
\* ------------------------------------------------------------------------

LaplaceFolded_get_bias(m, value) ==
    IF LaplaceTruncated_check_inputs(m, value) # "ok"
        THEN Raise(m, LaplaceTruncated_check_inputs(m, value), 0, 0)
    ELSE LET shp == FDiv(m.sensitivity, m.epsilon)
             num == FMul(shp,
                         FSub(FExp(FDiv(FSub(FAdd(m.lower_bound, m.upper_bound),
                                             FMul(2 * ONE, value)), shp)),
                              ONE))
             den == FAdd(FExp(FDiv(FSub(m.lower_bound, value), shp)),
                         FExp(FDiv(FSub(m.upper_bound, value), shp)))
         IN  IF shp = 0 THEN Raise(m, "ZeroDivisionError", 0, 0)
             ELSE Return(m, FDiv(num, den), 0, 0)

\* the body is `pass`: the call returns None
LaplaceFolded_get_variance(m, value) == Return(m, None, 0, 0)

LaplaceFolded_randomise(m, value, u) ==
    IF TruncationAndFoldingMachine_check_inputs(m, value) # "ok"
        THEN Raise(m, "ValueError", 0, 0)
    ELSE LET noisy_value == Laplace_randomise("LaplaceFolded", m, value, u)
         IN  IF noisy_value.out # "return" THEN noisy_value
             ELSE IF Fold(m, noisy_value.val) = None
                  \* the reflection goes on for ever: the call never returns
                  THEN Raise(m, "diverges", 1, 0)
             ELSE Return(m, Fold(m, noisy_value.val), 1, 0)

\* ------------------------------------------------------------------------
\* class LaplaceBoundedDomain
\* ------------------------------------------------------------------------

\* _find_scale._delta_c, with diam and delta_q read from the instance
delta_c(m, shp) ==
    LET diam == FSub(m.upper_bound, m.lower_bound)
        delta_q == m.sensitivity
    IN  IF FEq(shp, 0) THEN 2 * ONE
        ELSE FDiv(FSub(FSub(2 * ONE, FExp(FDiv(FNeg(delta_q), shp))),
                       FExp(FDiv(FNeg(FSub(diam, delta_q)), shp))),
                  FSub(ONE, FExp(FDiv(FNeg(diam), shp))))

\* _find_scale._f, with delta = 0.0
f(m, shp) ==
    FDiv(m.sensitivity,
         FSub(FSub(m.epsilon, FLog(delta_c(m, shp))), FLog(FSub(ONE, 0))))

\* _find_scale up to the loop: the locals left, right, old_interval_size
find_scale_enter(m) ==
    LET l == FDiv(m.sensitivity, FSub(m.epsilon, FLog(FSub(ONE, 0))))
        r == f(m, l)
    IN  [left |-> l, right |-> r,
         old_interval_size |-> FMul(FSub(r, l), 2 * ONE)]

\* the loop condition with >= in place of >
find_scale_continues_ge(st) ==
    FGe(st.old_interval_size, FSub(st.right, st.left))

\* the loop condition: old_interval_size > right - left
find_scale_continues(st) ==
    FGt(st.old_interval_size, FSub(st.right, st.left))

\* one iteration of the loop
find_scale_iterate(m, st) ==
    LET middle == FDiv(FAdd(st.right, st.left), 2 * ONE)
        fm == f(m, middle)
    IN  [left |-> IF FGe(fm, middle) THEN middle ELSE st.left,
         right |-> IF FLe(fm, middle) THEN middle ELSE st.right,
         old_interval_size |-> FSub(st.right, st.left)]

\* the value returned after the loop
find_scale_result(st) == FDiv(FAdd(st.right, st.left), 2 * ONE)

RECURSIVE find_scale_loop(_, _)
find_scale_loop(m, st) ==
    IF find_scale_continues(st) THEN find_scale_loop(m, find_scale_iterate(m, st))
    ELSE find_scale_result(st)

\* _find_scale, run to its end
find_scale(m) == find_scale_loop(m, find_scale_enter(m))

\* the scale solved again on every call
ensure_scale_always(m) == [m EXCEPT !.scale = find_scale(m)]

\* if self._scale is None: self._scale = self._find_scale()
ensure_scale(m) ==
    IF m.scale = None THEN [m EXCEPT !.scale = find_scale(m)] ELSE m

\* 1 when ensure_scale runs the solver
solver_runs(m) == IF m.scale = None THEN 1 ELSE 0

\* LaplaceBoundedDomain._cdf at the cached scale
LaplaceBoundedDomain_cdf(m, value) ==
    IF FEq(m.scale, 0) THEN (IF FLt(value, 0) THEN 0 ELSE ONE)
    ELSE IF FLt(value, 0) THEN FMul(HALF, FExp(FDiv(value, m.scale)))
    ELSE FSub(ONE, FMul(HALF, FExp(FDiv(FNeg(value), m.scale))))

LaplaceBoundedDomain_get_effective_epsilon(m) ==
    IF m.scale = None /\ (m.epsilon = None \/ m.upper_bound = None
                          \/ m.lower_bound = None \/ m.sensitivity = None)
        \* arithmetic on None inside _find_scale
        THEN Raise(m, "TypeError", 0, 0)
    ELSE IF m.sensitivity = None THEN Raise(m, "TypeError", 0, 0)
    ELSE LET m1 == ensure_scale(m)
         IN  Return(m1, FDiv(m1.sensitivity, m1.scale), 0, solver_runs(m))

\* the bias formula of LaplaceBoundedDomain.get_bias at the scale s
BoundedDomainBias(m, value, s) ==
    LET el == FExp(FDiv(FSub(m.lower_bound, value), s))
        eu == FExp(FDiv(FSub(value, m.upper_bound), s))
        num == FSub(FMul(FDiv(FAdd(FSub(s, m.lower_bound), value), 2 * ONE), el),
                    FMul(FDiv(FSub(FAdd(s, m.upper_bound), value), 2 * ONE), eu))
        den == FSub(FSub(ONE, FDiv(el, 2 * ONE)), FDiv(eu, 2 * ONE))
    IN  FDiv(num, den)

LaplaceBoundedDomain_get_bias(m, value) ==
    IF LaplaceTruncated_check_inputs(m, value) # "ok"
        THEN Raise(m, LaplaceTruncated_check_inputs(m, value), 0, 0)
    ELSE LET m1 == ensure_scale(m)
         IN  Return(m1, BoundedDomainBias(m1, value, m1.scale), 0, solver_runs(m))

\* the variance formula of LaplaceBoundedDomain.get_variance at the scale s
BoundedDomainVariance(m, value, s) ==
    LET lo == m.lower_bound
        up == m.upper_bound
        el == FExp(FDiv(FSub(lo, value), s))
        eu == FExp(FDiv(FSub(value, up), s))
        v1 == FSub(FMul(value, value),
                   FDiv(FAdd(FMul(el, FMul(lo, lo)), FMul(eu, FMul(up, up))),
                        2 * ONE))
        v2 == FAdd(v1, FMul(s, FSub(FMul(lo, el), FMul(up, eu))))
        v3 == FAdd(v2, FMul(FMul(s, s), FSub(FSub(2 * ONE, el), eu)))
        den == FSub(ONE,
                    FDiv(FAdd(FExp(FDiv(FNeg(FSub(value, lo)), s)),
                              FExp(FDiv(FNeg(FSub(up, value)), s))),
                         2 * ONE))
        v4 == FDiv(v3, den)
        bv == FAdd(BoundedDomainBias(m, value, s), value)
    IN  FSub(v4, FMul(bv, bv))

LaplaceBoundedDomain_get_variance(m, value) ==
    IF LaplaceTruncated_check_inputs(m, value) # "ok"
        THEN Raise(m, LaplaceTruncated_check_inputs(m, value), 0, 0)
    ELSE LET m1 == ensure_scale(m)
         IN  Return(m1, BoundedDomainVariance(m1, value, m1.scale), 0,
                    solver_runs(m))

\* the sampling of LaplaceBoundedDomain.randomise, on an instance whose scale
\* is cached, with the draw u
BoundedDomainSample(m, value, u) ==
    LET v1 == FMin(value, m.upper_bound)
        v2 == FMax2(v1, m.lower_bound)
        cu == LaplaceBoundedDomain_cdf(m, FSub(m.upper_bound, v2))
        cl == LaplaceBoundedDomain_cdf(m, FSub(m.lower_bound, v2))
        unif_rv == FSub(FAdd(FMul(u, FSub(cu, cl)), cl), HALF)
    IN  InverseCdf(v2, m.scale, unif_rv)

LaplaceBoundedDomain_randomise(m, value, u) ==
    IF LaplaceTruncated_check_inputs(m, value) # "ok"
        THEN Raise(m, LaplaceTruncated_check_inputs(m, value), 0, 0)
    ELSE LET m1 == ensure_scale(m)
         IN  Return(m1, BoundedDomainSample(m1, value, u), 1, solver_runs(m))

\* ------------------------------------------------------------------------
\* class LaplaceBoundedNoise
\* ------------------------------------------------------------------------

\* set_epsilon_delta accepting delta = 0.5
LaplaceBoundedNoise_set_epsilon_delta_le(m, eps, dlt) ==
    IF FEq(eps, 0) THEN Raise(m, "ValueError", 0, 0)
    ELSE IF ~(FLt(0, dlt) /\ FLe(dlt, HALF)) THEN Raise(m, "ValueError", 0, 0)
    ELSE DPMechanism_set_epsilon_delta(m, eps, dlt)

LaplaceBoundedNoise_set_epsilon_delta(m, eps, dlt) ==
    IF FEq(eps, 0) THEN Raise(m, "ValueError", 0, 0)
    ELSE IF ~(FLt(0, dlt) /\ FLt(dlt, HALF)) THEN Raise(m, "ValueError", 0, 0)
    ELSE DPMechanism_set_epsilon_delta(m, eps, dlt)

\* DPMechanism.set_epsilon: set_epsilon_delta(epsilon, 0.0) of the class of self
DPMechanism_set_epsilon(v, m, eps) ==
    IF v = "LaplaceBoundedNoise" THEN LaplaceBoundedNoise_set_epsilon_delta(m, eps, 0)
    ELSE DPMechanism_set_epsilon_delta(m, eps, 0)

LaplaceBoundedNoise_cdf(m, value) ==
    IF FEq(m.shape, 0) THEN (IF FLt(value, 0) THEN 0 ELSE ONE)
    ELSE IF FLt(value, 0) THEN FMul(HALF, FExp(FDiv(value, m.shape)))
    ELSE FSub(ONE, FMul(HALF, FExp(FDiv(FNeg(value), m.shape))))

LaplaceBoundedNoise_get_bias(m, value) == Return(m, 0, 0, 0)

\* the body is `pass`: the call returns None
LaplaceBoundedNoise_get_variance(m, value) == Return(m, None, 0, 0)

\* if self._shape is None or self._noise_bound is None: compute and store both
ensure_shape(m) ==
    IF m.shape = None \/ m.noise_bound = None
    THEN LET shp == FDiv(m.sensitivity, m.epsilon)
         IN  [m EXCEPT !.shape = shp,
                       !.noise_bound =
                           IF FEq(shp, 0) THEN -ONE
                           ELSE FMul(shp,
                                     FLog(FAdd(ONE,
                                               FDiv(FDiv(FSub(FExp(m.epsilon), ONE),
                                                         2 * ONE),
                                                    m.delta))))]
    ELSE m

\* the sampling of LaplaceBoundedNoise.randomise, on an instance whose shape
\* and noise bound are cached, with the draw u
BoundedNoiseSample(m, value, u) ==
    LET cu == LaplaceBoundedNoise_cdf(m, m.noise_bound)
        cl == LaplaceBoundedNoise_cdf(m, FNeg(m.noise_bound))
        unif_rv == FSub(FAdd(FMul(u, FSub(cu, cl)), cl), HALF)
    IN  FSub(value,
             FMul(m.shape,
                  FMul(FSign(unif_rv),
                       FLog(FSub(ONE, FMul(2 * ONE, FAbs(unif_rv)))))))

LaplaceBoundedNoise_randomise(m, value, u) ==
    IF Laplace_check_inputs(m, value) # "ok"
        THEN Raise(m, Laplace_check_inputs(m, value), 0, 0)
    ELSE LET m1 == ensure_shape(m)
         IN  Return(m1, BoundedNoiseSample(m1, value, u), 1, 0)

\* ------------------------------------------------------------------------
\* The instance under calls
\* ------------------------------------------------------------------------

NoCall ==
    [op |-> "__init__", args |-> <<>>, out |-> "return", val |-> None,
     draws |-> 0, u |-> None, solved |-> 0]

\* the state after __init__ of class v
Constructed(v) ==
    /\ variant = v
    /\ sensitivity = None
    /\ epsilon = None
    /\ delta = None
    /\ lower_bound = None
    /\ upper_bound = None
    /\ scale = None
    /\ shape = None
    /\ noise_bound = None
    /\ solves = 0
    /\ last = NoCall

Init ==
    /\ \E v \in Variants : Constructed(v)
    /\ pc = "idle"
    /\ left = None
    /\ right = None
    /\ old_interval_size = None

\* the call op(args), which took the draw u if it took one, ends as r says
Call(op, args, u, r) ==
    /\ pc = "idle"
    /\ last.out # "diverges"
    /\ sensitivity' = r.m.sensitivity
    /\ epsilon' = r.m.epsilon
    /\ delta' = r.m.delta
    /\ lower_bound' = r.m.lower_bound
    /\ upper_bound' = r.m.upper_bound
    /\ scale' = r.m.scale
    /\ shape' = r.m.shape
    /\ noise_bound' = r.m.noise_bound
    /\ solves' = solves + r.solved
    /\ last' = [op |-> op, args |-> args, out |-> r.out, val |-> r.val,
                draws |-> r.draws, u |-> IF r.draws = 0 THEN None ELSE u,
                solved |-> r.solved]
    /\ UNCHANGED <<variant, locals>>

set_sensitivity ==
    \E s \in SensInputs :
        Call("set_sensitivity", <<s>>, None, Laplace_set_sensitivity(Self, s))

set_epsilon ==
    \E e \in EpsInputs :
        Call("set_epsilon", <<e>>, None, DPMechanism_set_epsilon(variant, Self, e))

set_epsilon_delta ==
    /\ variant = "LaplaceBoundedNoise"
    /\ \E e \in EpsInputs, d \in DeltaInputs :
        Call("set_epsilon_delta", <<e, d>>, None,
             LaplaceBoundedNoise_set_epsilon_delta(Self, e, d))

set_bounds ==
    /\ variant \in Bounded
    /\ \E b \in BoundInputs :
        Call("set_bounds", b, None,
             TruncationAndFoldingMachine_set_bounds(Self, b[1], b[2]))

\* obj.randomise(value), by the class of obj
randomise(v, m, value, u) ==
    CASE v = "Laplace" -> Laplace_randomise("Laplace", m, value, u)
      [] v = "LaplaceTruncated" -> LaplaceTruncated_randomise(m, value, u)
      [] v = "LaplaceFolded" -> LaplaceFolded_randomise(m, value, u)
      [] v = "LaplaceBoundedDomain" -> LaplaceBoundedDomain_randomise(m, value, u)
      [] v = "LaplaceBoundedNoise" -> LaplaceBoundedNoise_randomise(m, value, u)

\* obj.get_bias(value), by the class of obj
get_bias(v, m, value) ==
    CASE v = "Laplace" -> Laplace_get_bias(m, value)
      [] v = "LaplaceTruncated" -> LaplaceTruncated_get_bias(m, value)
      [] v = "LaplaceFolded" -> LaplaceFolded_get_bias(m, value)
      [] v = "LaplaceBoundedDomain" -> LaplaceBoundedDomain_get_bias(m, value)
      [] v = "LaplaceBoundedNoise" -> LaplaceBoundedNoise_get_bias(m, value)

\* obj.get_variance(value), by the class of obj
get_variance(v, m, value) ==
    CASE v = "Laplace" -> Laplace_get_variance(m, value)
      [] v = "LaplaceTruncated" -> LaplaceTruncated_get_variance(m, value)
      [] v = "LaplaceFolded" -> LaplaceFolded_get_variance(m, value)
      [] v = "LaplaceBoundedDomain" -> LaplaceBoundedDomain_get_variance(m, value)
      [] v = "LaplaceBoundedNoise" -> LaplaceBoundedNoise_get_variance(m, value)

Randomise ==
    \E value \in ValueInputs, u \in Draws :
        Call("randomise", <<value>>, u, randomise(variant, Self, value, u))

GetBias ==
    \E value \in ValueInputs :
        Call("get_bias", <<value>>, None, get_bias(variant, Self, value))

GetVariance ==
    \E value \in ValueInputs :
        Call("get_variance", <<value>>, None, get_variance(variant, Self, value))

GetEffectiveEpsilon ==
    /\ variant = "LaplaceBoundedDomain"
    /\ Call("get_effective_epsilon", <<>>, None,
            LaplaceBoundedDomain_get_effective_epsilon(Self))

Next ==
    \/ set_sensitivity
    \/ set_epsilon
    \/ set_epsilon_delta
    \/ set_bounds
    \/ Randomise
    \/ GetBias
    \/ GetVariance
    \/ GetEffectiveEpsilon

Spec == Init /\ [][Next]_vars

\* ------------------------------------------------------------------------
\* _find_scale step by step: get_effective_epsilon() on a configured
\* LaplaceBoundedDomain instance whose scale is not cached yet
\* ------------------------------------------------------------------------

SolverSens == {HALF, ONE, 2 * ONE, 3 * ONE}
SolverEps == {ONE \div 4, HALF, ONE, 2 * ONE, Inf}
SolverBounds == {<<0, ONE>>, <<0, 8 * ONE>>, <<-ONE, ONE>>}

SolverInit ==
    /\ variant = "LaplaceBoundedDomain"
    /\ sensitivity \in SolverSens
    /\ epsilon \in SolverEps
    /\ delta = 0
    /\ \E b \in SolverBounds : lower_bound = b[1] /\ upper_bound = b[2]
    /\ scale = None
    /\ shape = None
    /\ noise_bound = None
    /\ solves = 0
    /\ last = NoCall
    /\ pc = "idle"
    /\ left = None
    /\ right = None
    /\ old_interval_size = None

Locals == [left |-> left, right |-> right, old_interval_size |-> old_interval_size]

SetLocals(st) ==
    /\ left' = st.left
    /\ right' = st.right
    /\ old_interval_size' = st.old_interval_size

\* the call enters _find_scale and runs it up to the loop
FindScaleEnter ==
    /\ pc = "idle"
    /\ scale = None
    /\ SetLocals(find_scale_enter(Self))
    /\ pc' = "loop"
    /\ UNCHANGED <<variant, fields, solves, last>>

\* one iteration of the loop
FindScaleIterate ==
    /\ pc = "loop"
    /\ find_scale_continues(Locals)
    /\ SetLocals(find_scale_iterate(Self, Locals))
    /\ pc' = "loop"
    /\ UNCHANGED <<variant, fields, solves, last>>

\* the loop ends, _find_scale returns and get_effective_epsilon stores the
\* scale and returns sensitivity / scale
FindScaleReturn ==
    /\ pc = "loop"
    /\ ~find_scale_continues(Locals)
    /\ scale' = find_scale_result(Locals)
    /\ solves' = solves + 1
    /\ last' = [op |-> "get_effective_epsilon", args |-> <<>>, out |-> "return",
                val |-> FDiv(sensitivity, scale'), draws |-> 0, u |-> None,
                solved |-> 1]
    /\ pc' = "done"
    /\ UNCHANGED <<variant, sensitivity, epsilon, delta, lower_bound, upper_bound,
                   shape, noise_bound, left, right, old_interval_size>>

SolverNext ==
    \/ FindScaleEnter
    \/ FindScaleIterate
    \/ FindScaleReturn

\* Python runs the call to its end: every enabled step is eventually taken
SolverSpec == SolverInit /\ [][SolverNext]_vars /\ WF_vars(SolverNext)

\* ------------------------------------------------------------------------
\* Properties
\* ------------------------------------------------------------------------

Queries == {"randomise", "get_bias", "get_variance", "get_effective_epsilon"}

\* some required part of the configuration is not set
Unconfigured ==
    \/ sensitivity = None
    \/ epsilon = None
    \/ variant \in Bounded /\ (lower_bound = None \/ upper_bound = None)

\* the instance with the configuration of self and nothing cached
Fresh == [Self EXCEPT !.scale = None, !.shape = None, !.noise_bound = None]

InBounds(x) == FLe(lower_bound, x) /\ FLe(x, upper_bound)

\* C1: a query (randomise, get_bias, get_variance, get_effective_epsilon)
\* on an instance whose sensitivity, epsilon or bounds are not set ends in
\* an error and returns no value.
C1_UnconfiguredQueryFails ==
    (last.op \in Queries /\ Unconfigured) => last.out \in Errors

C4_DeltaValidated ==
    variant = "LaplaceBoundedNoise" =>
        /\ delta = None \/ (FLt(0, delta) /\ FLt(delta, HALF))
        /\ last.op = "set_epsilon_delta" =>
             LET e == last.args[1]
                 d == last.args[2]
                 ok == ~FEq(e, 0) /\ FLt(0, d) /\ FLt(d, HALF)
             IN  /\ ~ok => last.out = "ValueError"
                 /\ ok => last.out = DPMechanism_set_epsilon_delta(Self, e, d).out
                 /\ last.out = "return" => (ok /\ epsilon = e /\ delta = d)

\* set_epsilon_delta(1, 0.5) was refused
C4_Witness ==
    /\ variant = "LaplaceBoundedNoise"
    /\ last.op = "set_epsilon_delta"
    /\ last.args = <<ONE, HALF>>
    /\ last.out = "ValueError"

\* C5: every value that randomise returns on a LaplaceTruncated or
\* LaplaceFolded instance lies in [lower_bound, upper_bound].
C5_TruncatedFoldedInBounds ==
    (/\ variant \in {"LaplaceTruncated", "LaplaceFolded"}
     /\ last.op = "randomise"
     /\ last.out = "return")
    => InBounds(last.val)

\* C6: on a LaplaceBoundedDomain instance randomise(value) returns a value in
\* [lower_bound, upper_bound] for every value in [lower_bound, upper_bound]
\* and every draw u with 0 < u < 1.
C6_BoundedDomainInBounds ==
    (/\ variant = "LaplaceBoundedDomain"
     /\ last.op = "randomise"
     /\ last.out = "return"
     /\ InBounds(last.args[1])
     /\ FLt(0, last.u) /\ FLt(last.u, ONE))
    => InBounds(last.val)

\* C7: on a LaplaceBoundedDomain instance the solver runs at most once: the
\* first successful query runs it and stores the scale, no later call changes
\* the stored scale, and get_effective_epsilon returns sensitivity / scale.
C7_ScaleSolvedOnce ==
    /\ [](variant = "LaplaceBoundedDomain" =>
            /\ solves <= 1
            /\ (solves = 1) <=> (scale # None)
            /\ (last.op = "get_effective_epsilon" /\ last.out = "return")
                   => last.val = FDiv(sensitivity, scale))
    /\ [][(variant = "LaplaceBoundedDomain" /\ scale # None) => scale' = scale]_vars
    /\ [][(/\ variant = "LaplaceBoundedDomain"
           /\ scale = None
           /\ last'.op \in Queries
           /\ last'.out = "return")
          => (scale' = find_scale(Self) /\ last'.solved = 1)]_vars

\* get_effective_epsilon returned on an instance whose configuration was
\* changed after the scale was stored
C7_Witness ==
    /\ variant = "LaplaceBoundedDomain"
    /\ solves = 1
    /\ last.op = "get_effective_epsilon"
    /\ last.out = "return"
    /\ scale # find_scale(Self)

\* C8: get_bias and get_variance change no field of the instance, take no
\* draw, and return what an instance with the same sensitivity, epsilon,
\* delta and bounds returns whatever was called before.
C8_MomentsArePure ==
    [][last'.op \in {"get_bias", "get_variance"} =>
        /\ fields' = fields
        /\ last'.draws = 0
        /\ last'.op = "get_bias" =>
               last'.val = get_bias(variant, Fresh, last'.args[1]).val
        /\ last'.op = "get_variance" =>
               last'.val = get_variance(variant, Fresh, last'.args[1]).val]_vars

\* C9: on Laplace, LaplaceTruncated, LaplaceFolded and LaplaceBoundedNoise a
\* randomise call uses the quotient of the stored sensitivity and epsilon: it
\* returns what an instance with the same configuration and nothing cached
\* returns for the same value and draw.
C9_ScaleRecomputed ==
    (/\ variant \in {"Laplace", "LaplaceTruncated", "LaplaceFolded",
                     "LaplaceBoundedNoise"}
     /\ last.op = "randomise"
     /\ last.out = "return")
    => last.val = randomise(variant, Fresh, last.args[1], last.u).val

Width == FSub(right, left)
Middle == FDiv(FAdd(right, left), 2 * ONE)

\* C10: _find_scale terminates: it starts from left = sensitivity / epsilon
\* and right = f(left), each iteration moves left and/or right to the
\* midpoint and does not widen the interval, the loop goes on only while the
\* width is strictly smaller than the previous one, and the result is the
\* midpoint of the final interval.
C10_FindScaleTerminates ==
    /\ <>(pc = "done")
    /\ [][(pc = "idle" /\ pc' = "loop") =>
            /\ left' = FDiv(sensitivity, epsilon)
            /\ right' = f(Self, left')]_vars
    /\ [][(pc = "loop" /\ pc' = "loop") =>
            /\ FGt(old_interval_size, Width)
            /\ left' = Middle \/ right' = Middle
            /\ left' \in {left, Middle}
            /\ right' \in {right, Middle}
            /\ FLe(FSub(right', left'), Width)
            /\ old_interval_size' = Width]_vars
    /\ [][(pc = "loop" /\ pc' = "done") =>
            /\ ~FGt(old_interval_size, Width)
            /\ scale' = Middle]_vars
    /\ [][(pc = "loop" /\ ~FGt(old_interval_size, Width)) => pc' = "done"]_vars
    /\ [][(pc = "idle" /\ pc' = "loop" /\ FLe(right', left')) =>
            ~find_scale_continues(Locals')]_vars

\* the loop has run and moved the scale off its starting point
C10_Witness ==
    /\ pc = "done"
    /\ IsFinite(scale)
    /\ FGt(scale, FDiv(sensitivity, epsilon))
    /\ FEq(left, right)
====
